---- MODULE Spec2Model ----
(***************************************************************************)
(* A model of PasswordManager (src/src/password_manager.py): the encrypted *)
(* profile it keeps in Storage (salt, authentication record, service       *)
(* list), its public operations, and the pure functions they are built     *)
(* from.  Text is a sequence of one-character strings, so that lengths,    *)
(* joins and character classes are computed as the code computes them.     *)
(***************************************************************************)
EXTENDS Integers, Sequences, FiniteSets, TLC

VARIABLES
  disk,       \* the Storage file: whether it exists, its password, its slots
  mgr,        \* the PasswordManager object: alive, and its _salt field
  sha3,       \* sha3_224 on the seeds hashed so far (a lazily sampled function)
  last,       \* the last call: operation, arguments, outcome, effects in order,
              \* and whether it derived for a pair derived for before
  app,        \* history: the app password the live manager was constructed with
  salts,      \* history: every value ever written under SALT_KEY
  derived,    \* history: every password returned, per (master, service)
  hashed,     \* the digest handed to the conversion under SpecConvert
  converted   \* the outcome of the conversion under SpecConvert

vars == <<disk, mgr, sha3, last, app, salts, derived, hashed, converted>>

(***************************************************************************)
(* The character tables of Python's string module and of the code.         *)
(***************************************************************************)
ascii_lowercase ==
  << "a", "b", "c", "d", "e", "f", "g", "h", "i", "j", "k", "l", "m", "n",
     "o", "p", "q", "r", "s", "t", "u", "v", "w", "x", "y", "z" >>

ascii_uppercase ==
  << "A", "B", "C", "D", "E", "F", "G", "H", "I", "J", "K", "L", "M", "N",
     "O", "P", "Q", "R", "S", "T", "U", "V", "W", "X", "Y", "Z" >>

digits ==
  << "0", "1", "2", "3", "4", "5", "6", "7", "8", "9" >>

ascii_letters == ascii_lowercase \o ascii_uppercase

special_base ==
  << "!", "@", "#", "=", "$", "%", "&", "*", "+", "-", "?", "_" >>

special_chars == special_base \o special_base

symbols == ascii_letters \o digits \o special_chars

format_specials ==
  << "$", "#", "@", "!", "*" >>

(***************************************************************************)
(* Python's  c in text  and  all(c not in alphabet for c in password).     *)
(***************************************************************************)
In(c, text) == \E i \in 1..Len(text) : text[i] = c

NoneIn(password, alphabet) ==
  \A i \in 1..Len(password) : ~In(password[i], alphabet)

(***************************************************************************)
(* str(n) for n >= 0, and _combine_strings: each string as                 *)
(* "<length>:<content>", joined.                                           *)
(***************************************************************************)
RECURSIVE Str(_)
Str(n) == IF n < 10 THEN <<digits[n + 1]>>
          ELSE Append(Str(n \div 10), digits[(n % 10) + 1])

LengthPrefixed(s) == Str(Len(s)) \o <<":">> \o s

RECURSIVE combine_strings(_)
combine_strings(strings) ==
  IF strings = <<>> THEN <<>>
  ELSE LengthPrefixed(Head(strings)) \o combine_strings(Tail(strings))

(***************************************************************************)
(* _convert_to_password, from the digest on (line 38 is the sha3 variable).*)
(* byte_ind is Python's 0-based index; hashed[byte_ind] is hashed[byte_ind *)
(* + 1] here, and a read at or past len(hashed) raises IndexError.         *)
(***************************************************************************)
DigestLen == 28

\* Mutant: the main walk reserves two bytes instead of four.
walk_end_late(h) == Len(h) - 2

WalkEnd(h) == Len(h) - 4

RECURSIVE MainWalk(_, _, _)
MainWalk(h, byte_ind, password) ==
  IF byte_ind < WalkEnd(h)
  THEN MainWalk(h, byte_ind + 1,
                Append(password, symbols[(h[byte_ind + 1] % Len(symbols)) + 1]))
  ELSE [password |-> password, byte_ind |-> byte_ind, raised |-> FALSE]

\* Mutant: a correction does not advance byte_ind.
fix_class_no_advance(st, h, alphabet, advance) ==
  IF st.raised \/ ~NoneIn(st.password, alphabet) THEN st
  ELSE IF st.byte_ind >= Len(h) THEN [st EXCEPT !.raised = TRUE]
  ELSE [st EXCEPT
          !.password = Append(@, alphabet[(h[st.byte_ind + 1] % Len(alphabet)) + 1])]

FixClass(st, h, alphabet, advance) ==
  IF st.raised \/ ~NoneIn(st.password, alphabet) THEN st
  ELSE IF st.byte_ind >= Len(h) THEN [st EXCEPT !.raised = TRUE]
  ELSE [st EXCEPT
          !.password = Append(@, alphabet[(h[st.byte_ind + 1] % Len(alphabet)) + 1]),
          !.byte_ind = @ + advance]

convert_digest(h) ==
  LET walked  == MainWalk(h, 0, <<>>)
      lowered == FixClass(walked, h, ascii_lowercase, 1)
      uppered == FixClass(lowered, h, ascii_uppercase, 1)
      digited == FixClass(uppered, h, digits, 1)
  IN  FixClass(digited, h, special_chars, 0)

(***************************************************************************)
(* validate_password: the list of problems, in the code's order.           *)
(***************************************************************************)
MinLength == 8

validate_password(password) ==
  (IF Len(password) < MinLength
     THEN <<"Password must be at least 8 characters">> ELSE <<>>)
  \o (IF NoneIn(password, ascii_lowercase) \/ NoneIn(password, ascii_uppercase)
        THEN <<"Password must contain capital and lowercase letters">> ELSE <<>>)
  \o (IF NoneIn(password, digits)
        THEN <<"Password must contain digits">> ELSE <<>>)
  \o (IF NoneIn(password, format_specials)
        THEN <<"Password must contain special characters: '$#@!*'">> ELSE <<>>)

(***************************************************************************)
(* Argon2.  config.HASHER_PARAMS is one value, fixed for the process;      *)
(* EarlierParams is what an earlier deployment may have hashed under.  A   *)
(* hash is modelled collision-free, as the inputs that decide it.          *)
(*   hash_secret(data, salt, params)  is decided by data, salt and params; *)
(*   PasswordHasher.hash(text)  draws its own random salt (nonce), records *)
(*   the parameters, and verifies exactly text.                            *)
(***************************************************************************)
HASHER_PARAMS == "current"

EarlierParams == "earlier"

MaxNonce == 1

Nonces == 0..MaxNonce

hash_secret(data, salt, params) == [data |-> data, salt |-> salt, params |-> params]

hasher_hash(text, params, nonce) == [secret |-> text, params |-> params, nonce |-> nonce]

hasher_verify(stored, text) == stored.secret = text

check_needs_rehash(stored) == stored.params # HASHER_PARAMS

(***************************************************************************)
(* Storage: an encrypted key/value file.  Each slot holds <<>> (absent,    *)
(* read gives None) or <<value>>.                                          *)
(***************************************************************************)
APP_KEY == "app"

SALT_KEY == "salt"

SERVICES_KEY == "services"

Keys == {APP_KEY, SALT_KEY, SERVICES_KEY}

NoDisk == [exists |-> FALSE, password |-> <<>>, slots |-> [k \in Keys |-> <<>>]]

storage_open(d, password) ==
  IF ~d.exists
  THEN [ok |-> TRUE, disk |-> [exists |-> TRUE, password |-> password,
                               slots |-> [k \in Keys |-> <<>>]]]
  ELSE [ok |-> d.password = password, disk |-> d]

storage_read(d, key) == d.slots[key]

storage_write(d, key, value) == [d EXCEPT !.slots[key] = <<value>>]

stores_key(d, key) == d.slots[key] # <<>>

(***************************************************************************)
(* The services property: the stored list, or [] when none is stored.      *)
(***************************************************************************)
services(d) ==
  IF storage_read(d, SERVICES_KEY) = <<>> THEN <<>>
  ELSE storage_read(d, SERVICES_KEY)[1]

(***************************************************************************)
(* _hash: stable is hash_secret(data, salt); unstable is                   *)
(* PasswordHasher.hash(_combine_strings([data, salt])).                    *)
(***************************************************************************)
hash_stable(salt, data) == hash_secret(data, salt, HASHER_PARAMS)

\* Mutant: the unstable hash is made by a default PasswordHasher(), not one
\* built from config.HASHER_PARAMS.
hash_unstable_default_params(salt, data, nonce) ==
  hasher_hash(combine_strings(<<data, salt>>), "default", nonce)

hash_unstable(salt, data, nonce) ==
  hasher_hash(combine_strings(<<data, salt>>), HASHER_PARAMS, nonce)

(***************************************************************************)
(* _init_salt: the stored salt, or a fresh one written to Storage.         *)
(***************************************************************************)
\* Mutant: the stored salt is not looked for.
init_salt_always_fresh(d, fresh) ==
  [salt |-> fresh, disk |-> storage_write(d, SALT_KEY, fresh),
   effects |-> <<"os.urandom", "storage.write:salt">>]

init_salt(d, fresh) ==
  IF stores_key(d, SALT_KEY)
  THEN [salt |-> storage_read(d, SALT_KEY)[1], disk |-> d,
        effects |-> <<"storage.stores_key:salt", "storage.read:salt">>]
  ELSE [salt |-> fresh, disk |-> storage_write(d, SALT_KEY, fresh),
        effects |-> <<"storage.stores_key:salt", "os.urandom",
                      "storage.write:salt">>]

(***************************************************************************)
(* __init__.  The outcome of a call: status "ok" or "error" (an exception, *)
(* err its message), the value returned, the Storage file afterwards and   *)
(* the hash and Storage operations performed, in order.                    *)
(***************************************************************************)
\* Mutant: Storage is opened before the format of the app password is checked.
construct_open_first(d, app_password, fresh, nonce) ==
  LET opened == storage_open(d, app_password) IN
  IF ~opened.ok
  THEN [status |-> "error", err |-> "Wrong app password", salt |-> <<>>,
        disk |-> d, effects |-> <<"storage.open">>]
  ELSE IF validate_password(app_password) # <<>>
  THEN [status |-> "error", err |-> "Invalid app password", salt |-> <<>>,
        disk |-> d, effects |-> <<"storage.open">>]
  ELSE
    LET salted == init_salt(opened.disk, fresh) IN
    [status |-> "ok", err |-> "", salt |-> salted.salt,
     disk |-> storage_write(salted.disk, APP_KEY,
                            hash_unstable(salted.salt, app_password, nonce)),
     effects |-> <<"storage.open">> \o salted.effects
                 \o <<"PasswordHasher.hash", "storage.write:app">>]

construct(d, app_password, fresh, nonce) ==
  IF validate_password(app_password) # <<>>
  THEN [status |-> "error", err |-> "Invalid app password", salt |-> <<>>,
        disk |-> d, effects |-> <<>>]
  ELSE
    LET opened == storage_open(d, app_password) IN
    IF ~opened.ok
    THEN [status |-> "error", err |-> "Wrong app password", salt |-> <<>>,
          disk |-> d, effects |-> <<"storage.open">>]
    ELSE
      LET salted == init_salt(opened.disk, fresh) IN
      [status |-> "ok", err |-> "", salt |-> salted.salt,
       disk |-> storage_write(salted.disk, APP_KEY,
                              hash_unstable(salted.salt, app_password, nonce)),
       effects |-> <<"storage.open">> \o salted.effects
                   \o <<"PasswordHasher.hash", "storage.write:app">>]

(***************************************************************************)
(* _check_app_password.  With no record stored, str(None) is no Argon2     *)
(* hash and verify raises InvalidHashError, which is not caught.           *)
(***************************************************************************)
\* Mutant: every match rehashes, stale or not.
check_app_password_rehash_always(d, salt, password, nonce) ==
  LET slot == storage_read(d, APP_KEY) IN
  IF slot = <<>>
  THEN [status |-> "error", err |-> "InvalidHashError", ret |-> FALSE,
        disk |-> d,
        effects |-> <<"storage.read:app", "PasswordHasher.verify">>]
  ELSE IF ~hasher_verify(slot[1], combine_strings(<<password, salt>>))
  THEN [status |-> "ok", err |-> "", ret |-> FALSE, disk |-> d,
        effects |-> <<"storage.read:app", "PasswordHasher.verify">>]
  ELSE [status |-> "ok", err |-> "", ret |-> TRUE,
        disk |-> storage_write(d, APP_KEY, hash_unstable(salt, password, nonce)),
        effects |-> <<"storage.read:app", "PasswordHasher.verify",
                      "PasswordHasher.hash", "storage.write:app">>]

check_app_password(d, salt, password, nonce) ==
  LET slot == storage_read(d, APP_KEY) IN
  IF slot = <<>>
  THEN [status |-> "error", err |-> "InvalidHashError", ret |-> FALSE,
        disk |-> d,
        effects |-> <<"storage.read:app", "PasswordHasher.verify">>]
  ELSE IF ~hasher_verify(slot[1], combine_strings(<<password, salt>>))
  THEN [status |-> "ok", err |-> "", ret |-> FALSE, disk |-> d,
        effects |-> <<"storage.read:app", "PasswordHasher.verify">>]
  ELSE IF check_needs_rehash(slot[1])
  THEN [status |-> "ok", err |-> "", ret |-> TRUE,
        disk |-> storage_write(d, APP_KEY, hash_unstable(salt, password, nonce)),
        effects |-> <<"storage.read:app", "PasswordHasher.verify",
                      "PasswordHasher.hash", "storage.write:app">>]
  ELSE [status |-> "ok", err |-> "", ret |-> TRUE, disk |-> d,
        effects |-> <<"storage.read:app", "PasswordHasher.verify">>]

(***************************************************************************)
(* validate_master: the format problems, then the match with the app       *)
(* password; ret is the list of problems.                                  *)
(***************************************************************************)
MustNotMatch == "Master password must not match app password"

\* Mutant: the match with the app password is reported when there is none.
validate_master_inverted(d, salt, master_password, nonce) ==
  LET checked == check_app_password(d, salt, master_password, nonce) IN
  IF checked.status = "error"
  THEN [checked EXCEPT !.ret = <<>>]
  ELSE [checked EXCEPT
          !.ret = validate_password(master_password)
                  \o (IF ~checked.ret THEN <<MustNotMatch>> ELSE <<>>)]

validate_master(d, salt, master_password, nonce) ==
  LET checked == check_app_password(d, salt, master_password, nonce) IN
  IF checked.status = "error"
  THEN [checked EXCEPT !.ret = <<>>]
  ELSE [checked EXCEPT
          !.ret = validate_password(master_password)
                  \o (IF checked.ret THEN <<MustNotMatch>> ELSE <<>>)]

(***************************************************************************)
(* generate_password: the checks (lines 125-132), then the derivation.     *)
(* digest is sha3_224 of the stable hash of the combined (master,          *)
(* service): the action supplies it from sha3.                             *)
(***************************************************************************)
derivation_seed(salt, master_password, service_name) ==
  hash_stable(salt, combine_strings(<<master_password, service_name>>))

\* Mutant: the service list is not consulted.
generate_checks_unregistered(d, salt, master_password, service_name, nonce) ==
  LET validated == validate_master(d, salt, master_password, nonce) IN
  IF validated.status = "error" THEN validated
  ELSE IF validated.ret # <<>>
  THEN [validated EXCEPT !.status = "error", !.err = "Invalid master password",
                         !.ret = <<>>]
  ELSE IF Len(service_name) = 0
  THEN [validated EXCEPT !.status = "error",
                         !.err = "Empty string can't represent a service"]
  ELSE validated

generate_checks(d, salt, master_password, service_name, nonce) ==
  LET validated == validate_master(d, salt, master_password, nonce) IN
  IF validated.status = "error" THEN validated
  ELSE IF validated.ret # <<>>
  THEN [validated EXCEPT !.status = "error", !.err = "Invalid master password",
                         !.ret = <<>>]
  ELSE IF ~In(service_name, services(validated.disk))
  THEN [validated EXCEPT !.status = "error", !.err = "Service does not exist",
                         !.effects = @ \o <<"storage.read:services">>]
  ELSE IF Len(service_name) = 0
  THEN [validated EXCEPT !.status = "error",
                         !.err = "Empty string can't represent a service",
                         !.effects = @ \o <<"storage.read:services">>]
  ELSE [validated EXCEPT !.effects = @ \o <<"storage.read:services">>]

generate_password(d, salt, master_password, service_name, nonce, digest) ==
  LET checked == generate_checks(d, salt, master_password, service_name, nonce) IN
  IF checked.status = "error" THEN checked
  ELSE
    LET conv == convert_digest(digest) IN
    [checked EXCEPT
       !.status = IF conv.raised THEN "error" ELSE "ok",
       !.err = IF conv.raised THEN "IndexError" ELSE "",
       !.ret = IF conv.raised THEN <<>> ELSE conv.password,
       !.effects = @ \o <<"hash_secret", "sha3_224">>]

(***************************************************************************)
(* add_service and remove_service.  list.remove deletes the first          *)
(* occurrence.                                                             *)
(***************************************************************************)
RECURSIVE RemoveFirst(_, _)
RemoveFirst(list, x) ==
  IF list = <<>> THEN <<>>
  ELSE IF Head(list) = x THEN Tail(list)
  ELSE <<Head(list)>> \o RemoveFirst(Tail(list), x)

\* Mutant: the label is appended and the list written before the empty label
\* is rejected.
add_service_write_first(d, service_name) ==
  IF ~In(service_name, services(d))
  THEN [status |-> IF Len(service_name) = 0 THEN "error" ELSE "ok",
        err |-> IF Len(service_name) = 0
                THEN "Empty string can't represent a service" ELSE "",
        ret |-> <<>>,
        disk |-> storage_write(d, SERVICES_KEY, Append(services(d), service_name)),
        effects |-> <<"storage.read:services", "storage.write:services">>]
  ELSE [status |-> IF Len(service_name) = 0 THEN "error" ELSE "ok",
        err |-> IF Len(service_name) = 0
                THEN "Empty string can't represent a service" ELSE "",
        ret |-> <<>>, disk |-> d,
        effects |-> <<"storage.read:services">>]

\* Mutant: the label is appended whether or not it is present.
add_service_append_always(d, service_name) ==
  IF Len(service_name) = 0
  THEN [status |-> "error", err |-> "Empty string can't represent a service",
        ret |-> <<>>, disk |-> d, effects |-> <<>>]
  ELSE [status |-> "ok", err |-> "", ret |-> <<>>,
        disk |-> storage_write(d, SERVICES_KEY, Append(services(d), service_name)),
        effects |-> <<"storage.read:services", "storage.write:services">>]

add_service(d, service_name) ==
  IF Len(service_name) = 0
  THEN [status |-> "error", err |-> "Empty string can't represent a service",
        ret |-> <<>>, disk |-> d, effects |-> <<>>]
  ELSE IF ~In(service_name, services(d))
  THEN [status |-> "ok", err |-> "", ret |-> <<>>,
        disk |-> storage_write(d, SERVICES_KEY, Append(services(d), service_name)),
        effects |-> <<"storage.read:services", "storage.write:services">>]
  ELSE [status |-> "ok", err |-> "", ret |-> <<>>, disk |-> d,
        effects |-> <<"storage.read:services">>]

remove_service(d, service_name) ==
  IF In(service_name, services(d))
  THEN [status |-> "ok", err |-> "", ret |-> <<>>,
        disk |-> storage_write(d, SERVICES_KEY,
                               RemoveFirst(services(d), service_name)),
        effects |-> <<"storage.read:services", "storage.write:services">>]
  ELSE [status |-> "ok", err |-> "", ret |-> <<>>, disk |-> d,
        effects |-> <<"storage.read:services">>]

(***************************************************************************)
(* The inputs the operations are called with.                              *)
(***************************************************************************)
Abcdef1 == <<"A", "b", "c", "d", "e", "f", "1", "$">>

Zxcvbn2 == <<"Z", "x", "c", "v", "b", "n", "2", "#">>

Weak == <<"a", "b", "c">>

github == <<"g", "i", "t", "h", "u", "b">>

gitlab == <<"g", "i", "t", "l", "a", "b">>

Passwords == {Abcdef1, Zxcvbn2, Weak}

ValidPasswords == {p \in Passwords : validate_password(p) = <<>>}

Labels == {github, gitlab, <<>>}

Salts == {<<"c", "2", "F", "s", "d", "A", "=", "=">>, <<"c", "G", "V", "w", "c", "A", "=", "=">>}

(***************************************************************************)
(* Digests.  A digest is DigestLen bytes: its last four are drawn freely   *)
(* from TailBytes and the bytes before them repeat a cycle drawn from      *)
(* WalkBytes, which holds a byte for each character class and bytes at or  *)
(* above len(symbols), so that the main walk can miss any set of classes   *)
(* short of all four.                                                      *)
(***************************************************************************)
CycleLen == 4

WalkBytes == {3, 57, 86, 113, 255}

TailBytes == {7, 255}

MakeDigest(cycle, tail) ==
  [i \in 1..DigestLen |->
     IF i <= DigestLen - Len(tail) THEN cycle[((i - 1) % Len(cycle)) + 1]
     ELSE tail[i - (DigestLen - Len(tail))]]

ConvertDigests ==
  {MakeDigest(cycle, tail) :
     cycle \in [1..CycleLen -> WalkBytes], tail \in [1..4 -> TailBytes]}

SpecDigests ==
  {MakeDigest(<<3, 57, 113, 255>>, <<7, 7, 7, 7>>),
   MakeDigest(<<255, 57>>, <<255, 7, 255, 7>>)}

(***************************************************************************)
(* The state after nothing has run: no profile, or the profile an earlier  *)
(* run of the program left in Storage, its record hashed under the current *)
(* or under earlier Hasher Parameters.                                     *)
(***************************************************************************)
EarlierProfile(password, salt, params, list) ==
  [exists |-> TRUE, password |-> password,
   slots |-> [k \in Keys |->
                IF k = SALT_KEY THEN <<salt>>
                ELSE IF k = APP_KEY
                  THEN <<hasher_hash(combine_strings(<<password, salt>>), params, 0)>>
                ELSE list]]

EarlierSalt == CHOOSE s \in Salts : TRUE

InitialDisks ==
  {NoDisk} \cup
  {EarlierProfile(p, EarlierSalt, hp, l) :
     p \in ValidPasswords, hp \in {HASHER_PARAMS, EarlierParams},
     l \in {<<>>, <<(<<github>>)>>}}

NoCall ==
  [op |-> "none", pw |-> <<>>, svc |-> <<>>, status |-> "ok", err |-> "",
   ret |-> <<>>, effects |-> <<>>, repeat |-> FALSE]

NotConverted == [done |-> FALSE, password |-> <<>>, raised |-> FALSE]

Init ==
  /\ disk \in InitialDisks
  /\ mgr = [alive |-> FALSE, salt |-> <<>>]
  /\ sha3 = [seed \in {} |-> <<>>]
  /\ last = NoCall
  /\ app = <<>>
  /\ salts = {disk.slots[SALT_KEY][i] : i \in 1..Len(disk.slots[SALT_KEY])}
  /\ derived = [ms \in Passwords \X Labels |-> {}]
  /\ hashed = <<>>
  /\ converted = NotConverted

Call(op, pw, svc, out) ==
  [op |-> op, pw |-> pw, svc |-> svc, status |-> out.status, err |-> out.err,
   ret |-> out.ret, effects |-> out.effects, repeat |-> FALSE]

(***************************************************************************)
(* What a call draws at random: the nonce of PasswordHasher.hash, drawn    *)
(* only by a call that hashes; the salt of os.urandom, drawn only by a     *)
(* call that creates one; the digest of a seed sha3 has not seen.          *)
(* An outcome is bound by \E over a singleton: it is computed once.        *)
(***************************************************************************)
RehashNonces(out) ==
  IF In("PasswordHasher.hash", out.effects) THEN Nonces ELSE {0}

DigestChoices(seed, derives) ==
  IF ~derives THEN {<<>>}
  ELSE IF seed \in DOMAIN sha3 THEN {sha3[seed]} ELSE SpecDigests

StoredSalts(d) == {d.slots[SALT_KEY][i] : i \in 1..Len(d.slots[SALT_KEY])}

FreshSalts(out) == IF In("os.urandom", out.effects) THEN Salts ELSE {<<>>}

Construct(app_password) ==
  \E pre \in {construct(disk, app_password, <<>>, 0)} :
  \E fresh \in FreshSalts(pre), nonce \in RehashNonces(pre) :
  \E out \in {construct(disk, app_password, fresh, nonce)} :
    /\ disk' = out.disk
    /\ last' = [op |-> "construct", pw |-> app_password, svc |-> <<>>,
                status |-> out.status, err |-> out.err, ret |-> <<>>,
                effects |-> out.effects, repeat |-> FALSE]
    /\ mgr' = IF out.status = "ok" THEN [alive |-> TRUE, salt |-> out.salt] ELSE mgr
    /\ app' = IF out.status = "ok" THEN app_password ELSE app
    /\ salts' = salts \cup StoredSalts(out.disk)
    /\ UNCHANGED <<sha3, derived, hashed, converted>>

ValidateMaster(master_password) ==
  /\ mgr.alive
  /\ \E nonce \in RehashNonces(validate_master(disk, mgr.salt, master_password, 0)) :
       \E out \in {validate_master(disk, mgr.salt, master_password, nonce)} :
       /\ disk' = out.disk
       /\ last' = Call("validate_master", master_password, <<>>, out)
  /\ UNCHANGED <<mgr, sha3, app, salts, derived, hashed, converted>>

GeneratePassword(master_password, service_name) ==
  /\ mgr.alive
  /\ LET seed == derivation_seed(mgr.salt, master_password, service_name)
         pre  == generate_checks(disk, mgr.salt, master_password, service_name, 0)
     IN
     \E nonce \in RehashNonces(pre), digest \in DigestChoices(seed, pre.status = "ok") :
       \E out \in {generate_password(disk, mgr.salt, master_password,
                                    service_name, nonce, digest)} :
       /\ disk' = out.disk
       /\ last' = [Call("generate_password", master_password, service_name, out)
                    EXCEPT !.repeat = out.status = "ok" /\
                             derived[<<master_password, service_name>>] # {}]
       /\ sha3' = IF In("sha3_224", out.effects)
                  THEN [x \in DOMAIN sha3 \cup {seed} |->
                          IF x = seed THEN digest ELSE sha3[x]]
                  ELSE sha3
       /\ derived' = IF out.status = "ok"
                     THEN [derived EXCEPT ![<<master_password, service_name>>] =
                                             @ \cup {out.ret}]
                     ELSE derived
  /\ UNCHANGED <<mgr, app, salts, hashed, converted>>

AddService(service_name) ==
  /\ mgr.alive
  /\ \E out \in {add_service(disk, service_name)} :
     /\ disk' = out.disk
     /\ last' = Call("add_service", <<>>, service_name, out)
  /\ UNCHANGED <<mgr, sha3, app, salts, derived, hashed, converted>>

RemoveService(service_name) ==
  /\ mgr.alive
  /\ \E out \in {remove_service(disk, service_name)} :
     /\ disk' = out.disk
     /\ last' = Call("remove_service", <<>>, service_name, out)
  /\ UNCHANGED <<mgr, sha3, app, salts, derived, hashed, converted>>

Next ==
  \/ \E a \in Passwords : Construct(a)
  \/ \E m \in Passwords : ValidateMaster(m)
  \/ \E m \in Passwords, s \in Labels : GeneratePassword(m, s)
  \/ \E s \in Labels : AddService(s)
  \/ \E s \in Labels : RemoveService(s)

Spec == Init /\ [][Next]_vars

(***************************************************************************)
(* SpecConvert: _convert_to_password applied to each digest of             *)
(* ConvertDigests.                                                         *)
(***************************************************************************)
InitConvert ==
  /\ hashed \in ConvertDigests
  /\ converted = NotConverted
  /\ disk = NoDisk
  /\ mgr = [alive |-> FALSE, salt |-> <<>>]
  /\ sha3 = [seed \in {} |-> <<>>]
  /\ last = NoCall
  /\ app = <<>>
  /\ salts = {}
  /\ derived = [ms \in Passwords \X Labels |-> {}]

Convert ==
  /\ ~converted.done
  /\ \E conv \in {convert_digest(hashed)} :
       converted' = [done |-> TRUE, password |-> conv.password,
                     raised |-> conv.raised]
  /\ UNCHANGED <<disk, mgr, sha3, last, app, salts, derived, hashed>>

NextConvert == Convert

SpecConvert == InitConvert /\ [][NextConvert]_vars

(***************************************************************************)
(* SpecAuth: _check_app_password on a manager whose Storage holds any      *)
(* authentication record: of either valid password, hashed under the       *)
(* current or under earlier Hasher Parameters (the record a process        *)
(* running an earlier configuration leaves behind).                        *)
(***************************************************************************)
AuthDisks ==
  {[exists |-> TRUE, password |-> p,
    slots |-> [k \in Keys |->
                 IF k = SALT_KEY THEN <<s>>
                 ELSE IF k = APP_KEY
                   THEN <<hasher_hash(combine_strings(<<p, s>>), hp, n)>>
                 ELSE l]] :
     p \in ValidPasswords, s \in Salts, hp \in {HASHER_PARAMS, EarlierParams},
     n \in Nonces, l \in {<<>>, <<(<<github>>)>>}}

InitAuth ==
  /\ disk \in AuthDisks
  /\ mgr = [alive |-> TRUE, salt |-> disk.slots[SALT_KEY][1]]
  /\ sha3 = [seed \in {} |-> <<>>]
  /\ last = NoCall
  /\ app = disk.password
  /\ salts = StoredSalts(disk)
  /\ derived = [ms \in Passwords \X Labels |-> {}]
  /\ hashed = <<>>
  /\ converted = NotConverted

CheckAppPassword(password) ==
  /\ mgr.alive
  /\ \E nonce \in RehashNonces(check_app_password(disk, mgr.salt, password, 0)) :
     \E out \in {check_app_password(disk, mgr.salt, password, nonce)} :
       /\ disk' = out.disk
       /\ last' = Call("check_app_password", password, <<>>,
                       [out EXCEPT !.ret = <<out.ret>>])
  /\ UNCHANGED <<mgr, sha3, app, salts, derived, hashed, converted>>

NextAuth == \E c \in Passwords : CheckAppPassword(c)

SpecAuth == InitAuth /\ [][NextAuth]_vars

(***************************************************************************)
(* Properties.                                                             *)
(***************************************************************************)
Writes == {"storage.write:app", "storage.write:salt", "storage.write:services"}

NoWrite(effects) == \A i \in 1..Len(effects) : effects[i] \notin Writes

Record(d) == storage_read(d, APP_KEY)[1]

Count(list, x) == Cardinality({i \in 1..Len(list) : list[i] = x})

\* C1: a call that ends in an error performs no Storage write and leaves the
\* Storage file (salt, authentication record, service list) exactly as it
\* was before the call.
TheoremC1 ==
  [][last'.status = "error" => disk' = disk /\ NoWrite(last'.effects)]_vars

\* C1 witness: generate_password with the app password as master was
\* rejected, on a profile that holds a service list.
WitnessC1 ==
  /\ last.op = "generate_password"
  /\ last.status = "error"
  /\ last.pw = app
  /\ services(disk) # <<>>

\* C2: the conversion of a digest never reads past the digest's end, and the
\* password holds a lowercase letter, an uppercase letter, a digit and a
\* character of !@#=$%&*+-?_.
TheoremC2 ==
  converted.done =>
    /\ ~converted.raised
    /\ ~NoneIn(converted.password, ascii_lowercase)
    /\ ~NoneIn(converted.password, ascii_uppercase)
    /\ ~NoneIn(converted.password, digits)
    /\ ~NoneIn(converted.password, special_base)

\* C2 witness: a digest whose main walk misses three classes was converted.
WitnessC2 == converted.done /\ Len(converted.password) = 27

\* C3: generate_password returns a password only for a label that is in the
\* service list when it is called; for any other label it is rejected and
\* returns nothing.
TheoremC3 ==
  [][last'.op = "generate_password" =>
       /\ last'.status = "ok" => In(last'.svc, services(disk))
       /\ ~In(last'.svc, services(disk)) =>
            last'.status = "error" /\ last'.ret = <<>>]_vars

\* C3 witness: deriving was rejected for a label a password was derived for
\* earlier: it was added, then removed.
WitnessC3 ==
  /\ last.op = "generate_password"
  /\ last.err = "Service does not exist"
  /\ \E m \in Passwords : derived[<<m, last.svc>>] # {}

\* C4: with a manager constructed with app password a, validate_master(m)
\* reports "Master password must not match app password" exactly when m = a,
\* and generate_password(a, s) is rejected for every label s.
TheoremC4 ==
  mgr.alive =>
    /\ \A m \in Passwords :
         In(MustNotMatch, validate_master(disk, mgr.salt, m, 0).ret) <=> m = app
    /\ \A s \in Labels :
         generate_password(disk, mgr.salt, app, s, 0,
                           CHOOSE h \in SpecDigests : TRUE).status = "error"
    /\ last.op = "generate_password" /\ last.pw = app => last.status = "error"

\* C4 witness: deriving with the app password as master was rejected for a
\* registered label.
WitnessC4 ==
  /\ last.op = "generate_password"
  /\ last.pw = app
  /\ last.err = "Invalid master password"
  /\ In(last.svc, services(disk))

\* C5: the service list never holds a label twice nor the empty label;
\* add_service of a present label and remove_service of an absent one leave
\* Storage as it was, and after a successful add_service(x) the list holds
\* x exactly once.
TheoremC5 ==
  /\ [](/\ \A x \in Labels : Count(services(disk), x) <= 1
        /\ ~In(<<>>, services(disk)))
  /\ [][/\ last'.op = "add_service" /\ In(last'.svc, services(disk)) =>
             disk' = disk /\ NoWrite(last'.effects)
        /\ last'.op = "remove_service" /\ ~In(last'.svc, services(disk)) =>
             disk' = disk /\ NoWrite(last'.effects)
        /\ last'.op = "add_service" /\ last'.status = "ok" =>
             Count(services(disk'), last'.svc) = 1]_vars

\* C5 witness: add_service was called for a label already in a list of two.
WitnessC5 ==
  /\ last.op = "add_service"
  /\ last.status = "ok"
  /\ NoWrite(last.effects)
  /\ Len(services(disk)) = 2

\* C6: at most one salt is ever stored, the manager's salt is the stored
\* one, and all the passwords returned for one (master, service) are equal.
TheoremC6 ==
  /\ Cardinality(salts) <= 1
  /\ mgr.alive => <<mgr.salt>> = storage_read(disk, SALT_KEY)
  /\ \A ms \in Passwords \X Labels : Cardinality(derived[ms]) <= 1

\* C6 witness: a password was returned for a pair one was returned for before.
WitnessC6 == last.op = "generate_password" /\ last.repeat

\* C7 as stated: a constructor or generate_password call whose password
\* violates the format rules performs no hash, no verify and no Storage
\* access.
OriginalC7 ==
  (/\ last.op \in {"construct", "generate_password"}
   /\ validate_password(last.pw) # <<>>) => last.effects = <<>>

\* C7 amended: the constructor performs nothing; generate_password is
\* rejected after exactly one read of the authentication record and one
\* verify, with no write, no hash and no read of the service list.
TheoremC7 ==
  validate_password(last.pw) # <<>> =>
    /\ last.op = "construct" =>
         last.status = "error" /\ last.effects = <<>>
    /\ last.op = "generate_password" =>
         /\ last.status = "error"
         /\ last.effects = <<"storage.read:app", "PasswordHasher.verify">>

\* C7 witness: generate_password was rejected for a master password that
\* violates the format rules.
WitnessC7 ==
  /\ last.op = "generate_password"
  /\ validate_password(last.pw) # <<>>
  /\ last.status = "error"

\* C8: _check_app_password(c) writes the record exactly when c verifies
\* against the stored record and that record is stale; on mismatch it
\* returns False and leaves Storage as it was; on match it returns True;
\* after a rehash the record verifies c and is not stale, only the record
\* has changed, and a successful authentication that follows a successful
\* authentication of the same c writes nothing.
TheoremC8 ==
  [][last'.op = "check_app_password" =>
       LET c       == last'.pw
           matches == hasher_verify(Record(disk), combine_strings(<<c, mgr.salt>>))
           stale   == check_needs_rehash(Record(disk))
           wrote   == ~NoWrite(last'.effects)
       IN  /\ wrote <=> (matches /\ stale)
           /\ ~wrote => disk' = disk
           /\ ~matches => last'.ret = <<FALSE>>
           /\ matches => last'.ret = <<TRUE>>
           /\ wrote =>
                /\ hasher_verify(Record(disk'), combine_strings(<<c, mgr.salt>>))
                /\ ~check_needs_rehash(Record(disk'))
                /\ disk' = storage_write(disk, APP_KEY, Record(disk'))
           /\ (/\ last.op = "check_app_password"
               /\ last.pw = c
               /\ last.ret = <<TRUE>>) => ~wrote]_vars

\* C8 witness: an authentication rehashed the record.
WitnessC8 ==
  /\ last.op = "check_app_password"
  /\ last.ret = <<TRUE>>
  /\ ~NoWrite(last.effects)

\* C9: the password is the 24 characters symbols[D[i] mod 86], i = 0..23,
\* followed, for the k-th of the classes lowercase, uppercase, digit, special
\* that these 24 miss, by the character of that class chosen by D[24 + k - 1];
\* its length is 24 plus the number of classes missed, between 24 and 28.
TheoremC9 ==
  converted.done =>
    LET pw      == converted.password
        walked  == SubSeq(pw, 1, 24)
        classes == <<ascii_lowercase, ascii_uppercase, digits, special_chars>>
        missed  == SelectSeq(classes, LAMBDA alphabet : NoneIn(walked, alphabet))
    IN  /\ ~converted.raised
        /\ Len(pw) = 24 + Len(missed)
        /\ Len(pw) \in 24..28
        /\ \A i \in 1..24 : pw[i] = symbols[(hashed[i] % 86) + 1]
        /\ \A k \in 1..Len(missed) :
             pw[24 + k] = missed[k][(hashed[24 + k] % Len(missed[k])) + 1]

\* C9 witness: a digest whose main walk misses two classes was converted.
WitnessC9 == converted.done /\ Len(converted.password) = 26

\* C10: while a manager is constructed the authentication record is stored,
\* verifies the construction-time app password and no other, and is not
\* stale; only the constructor writes it.
TheoremC10 ==
  /\ mgr.alive =>
       /\ stores_key(disk, APP_KEY)
       /\ \A c \in Passwords :
            hasher_verify(Record(disk), combine_strings(<<c, mgr.salt>>)) <=> c = app
       /\ ~check_needs_rehash(Record(disk))
  /\ last.op # "construct" =>
       \A i \in 1..Len(last.effects) : last.effects[i] # "storage.write:app"

\* C10 witness: an authentication with the app password succeeded.
WitnessC10 ==
  /\ last.op = "validate_master"
  /\ last.pw = app
  /\ In(MustNotMatch, last.ret)

====
